---- MODULE Spec2Model ----
(***************************************************************************)
(* Form state machine of api-form: the reducer behind useFormControl and   *)
(* its helpers generateDefaultFormData, reset, changeField, checkData,     *)
(* parseNumbers and submit (useFormControl.ts).                            *)
(*                                                                         *)
(* JavaScript values are records [t, s, n, b, nan]: t is the typeof tag    *)
(* ("string", "number", "boolean", "null", "undefined"), s the characters  *)
(* of a string (a sequence of one-character strings), n the integer of a   *)
(* number, b the truth value of a boolean and nan marks NaN.  Objects      *)
(* (FormData, FormErrors) are functions from their own keys to values; a   *)
(* read of a missing key gives undefined.                                  *)
(***************************************************************************)
EXTENDS Integers, Sequences, FiniteSets, TLC

VARIABLES
  formLayout,     \* the layout the hook was called with (fixed for a session)
  defaultData,    \* the caller's defaultData object, with its current contents
  idKey,          \* the idKey the hook was called with
  formData,       \* formState.formData
  formErrors,     \* formState.formErrors
  lastAction,     \* type of the action dispatched last ("init" before any)
  onSubmitCalls,  \* arguments of the onSubmit calls made by the last dispatch
  deferred,       \* the deferred results onSubmit returned so far, each
                  \* "pending", "fulfilled" or "rejected"
  queue           \* actions passed to formDispatch and not yet applied

vars ==
  <<formLayout, defaultData, idKey, formData, formErrors, lastAction, onSubmitCalls,
    deferred, queue>>

(* ------------------------------ bounds --------------------------------- *)

\* Largest number of fields of a layout.
MaxFields == 2

\* Largest number of fields of a layout in the sessions with edit-mode
\* arguments and deferred callbacks.
MaxSessionFields == 1

\* Largest number of deferred results onSubmit returns in a session.
MaxDeferred == 2

\* Largest number of actions dispatched between two renders.
MaxQueue == 2

(* --------------------------- JavaScript values -------------------------- *)

MkVal(t, s, n, b, nan) == [t |-> t, s |-> s, n |-> n, b |-> b, nan |-> nan]

Undefined == MkVal("undefined", <<>>, 0, FALSE, FALSE)

Null == MkVal("null", <<>>, 0, FALSE, FALSE)

Str(s) == MkVal("string", s, 0, FALSE, FALSE)

Num(n) == MkVal("number", <<>>, n, FALSE, FALSE)

NaN == MkVal("number", <<>>, 0, FALSE, TRUE)

Bool(b) == MkVal("boolean", <<>>, 0, b, FALSE)

\* v == null (loose): null or undefined.
IsNullish(v) == v.t \in {"null", "undefined"}

\* ToBoolean(v): the test of `a && b` and `a || b`.
Truthy(v) ==
  CASE v.t = "string" -> v.s # <<>>
    [] v.t = "number" -> ~v.nan /\ v.n # 0
    [] v.t = "boolean" -> v.b
    [] OTHER -> FALSE

DigitChars == <<"0", "1", "2", "3", "4", "5", "6", "7", "8", "9">>

IsDigit(c) == \E i \in 1..Len(DigitChars) : DigitChars[i] = c

DigitVal(c) == (CHOOSE i \in 1..Len(DigitChars) : DigitChars[i] = c) - 1

RECURSIVE TrimLeft(_)
TrimLeft(s) == IF s # <<>> /\ Head(s) = " " THEN TrimLeft(Tail(s)) ELSE s

RECURSIVE TrimRight(_)
TrimRight(s) ==
  IF s # <<>> /\ s[Len(s)] = " " THEN TrimRight(SubSeq(s, 1, Len(s) - 1)) ELSE s

RECURSIVE DecimalValue(_)
DecimalValue(s) ==
  IF s = <<>> THEN 0
  ELSE 10 * DecimalValue(SubSeq(s, 1, Len(s) - 1)) + DigitVal(s[Len(s)])

\* Number(string) on strings of digits, blanks and letters: blanks are
\* trimmed, the empty string is 0, a digit string is its decimal value and
\* anything else is NaN.
StringToNumber(s) ==
  LET t == TrimRight(TrimLeft(s))
  IN  IF t = <<>> THEN Num(0)
      ELSE IF \A i \in 1..Len(t) : IsDigit(t[i]) THEN Num(DecimalValue(t))
      ELSE NaN

\* Number(v)
ToNumber(v) ==
  CASE v.t = "string" -> StringToNumber(v.s)
    [] v.t = "number" -> v
    [] v.t = "boolean" -> IF v.b THEN Num(1) ELSE Num(0)
    [] v.t = "null" -> Num(0)
    [] OTHER -> NaN

(* ------------------------------- objects -------------------------------- *)

EmptyObj == [k \in {} |-> Undefined]

\* obj[key]
Get(obj, key) == IF key \in DOMAIN obj THEN obj[key] ELSE Undefined

\* obj[key] = value on a copy of obj
Put(obj, key, value) ==
  [k \in DOMAIN obj \cup {key} |-> IF k = key THEN value ELSE obj[k]]

\* Object.keys(obj).length
NumKeys(obj) == Cardinality(DOMAIN obj)

(* ------------------------------- inputs --------------------------------- *)

\* Field ids by position: the i-th field of a layout has id FieldIds[i]
\* (ids are unique within a layout).
FieldIds == <<"age", "name", "agree", "city">>

\* A key of form data that is not a field of any layout (the id of an
\* edited record).
RecordIdKey == "id"

\* Field descriptors without their id: a required NUMBER, an optional
\* NUMBER with a declared defaultValue, a required field of another type
\* whose defaultValue is null, and an optional BOOLEAN.
FieldKinds ==
  << [inputType |-> "NUMBER",  required |-> TRUE,  defaultValue |-> Undefined],
     [inputType |-> "NUMBER",  required |-> FALSE, defaultValue |-> Str(<<"7">>)],
     [inputType |-> "STRING",  required |-> TRUE,  defaultValue |-> Null],
     [inputType |-> "BOOLEAN", required |-> FALSE, defaultValue |-> Undefined] >>

Field(i, kind) ==
  [id |-> FieldIds[i], inputType |-> kind.inputType,
   required |-> kind.required, defaultValue |-> kind.defaultValue]

\* Layouts of n fields, up to the order of the fields: the kinds of the
\* fields are taken in the order of FieldKinds.
LayoutsOfLen(n) ==
  { [i \in 1..n |-> Field(i, FieldKinds[kinds[i]])] :
      kinds \in { f \in [1..n -> 1..Len(FieldKinds)] :
                    \A i \in 1..n, j \in 1..n : i < j => f[i] <= f[j] } }

Layouts == UNION { LayoutsOfLen(n) : n \in 0..MaxFields }

LayoutIds(layout) == { layout[i].id : i \in 1..Len(layout) }

\* Values a caller passes to changeField.
InputValues == { Str(<<>>), Str(<<"1", "2">>), Null, Bool(TRUE) }

\* Keys a caller passes to changeField.
InputKeys(layout) == LayoutIds(layout) \cup {RecordIdKey}

\* defaultData?: FormData | null
NoData == [present |-> FALSE, obj |-> EmptyObj]

SomeData(obj) == [present |-> TRUE, obj |-> obj]

\* idKey?: string (undefined and "" are both falsy in `idKey && ...`)
NoIdKey == ""

(* ---------------------------- useFormControl.ts ------------------------- *)

\* SetDefault without the BOOLEAN case: every field without a default gets "".
SetDefault_NoBooleanCase(data, field) ==
  IF ~IsNullish(Get(data, field.id)) THEN data
  ELSE IF IsNullish(field.defaultValue)
       THEN Put(data, field.id, Str(<<>>))
       ELSE Put(data, field.id, field.defaultValue)

\* The callback of formLayout.map in generateDefaultFormData, for one field.
SetDefault(data, field) ==
  IF ~IsNullish(Get(data, field.id)) THEN data
  ELSE IF IsNullish(field.defaultValue)
       THEN IF field.inputType = "BOOLEAN"
            THEN Put(data, field.id, Bool(FALSE))
            ELSE Put(data, field.id, Str(<<>>))
       ELSE Put(data, field.id, field.defaultValue)

RECURSIVE MapSetDefault(_, _, _)
MapSetDefault(data, layout, i) ==
  IF i > Len(layout) THEN data
  ELSE MapSetDefault(SetDefault(data, layout[i]), layout, i + 1)

\* generateDefaultFormData works on the caller's object when one is given
\* (formData and defaultData are then the same object), so it returns the
\* form data and leaves the caller's object with the same contents.
generateDefaultFormData(layout, data, key) ==
  LET filled == MapSetDefault(IF data.present THEN data.obj ELSE EmptyObj, layout, 1)
      aliased == IF data.present THEN filled ELSE EmptyObj
      final == IF key # NoIdKey /\ data.present /\ Truthy(Get(aliased, key))
               THEN Put(filled, key, Get(aliased, key))
               ELSE filled
  IN  [formData |-> final,
       defaultData |-> IF data.present THEN SomeData(final) ELSE data]

\* reset that hands the current form data to generateDefaultFormData.
reset_KeepsData(state, layout) ==
  [state EXCEPT !.formData =
                  generateDefaultFormData(layout, SomeData(state.formData), NoIdKey).formData,
                !.formErrors = EmptyObj]

reset(state, layout) ==
  [state EXCEPT !.formData = generateDefaultFormData(layout, NoData, NoIdKey).formData,
                !.formErrors = EmptyObj]

\* changeField without the spread of state.formData.
changeField_NoSpread(state, key, value) ==
  [state EXCEPT !.formData = Put(EmptyObj, key, value)]

\* changeField that appends a string value to the stored string.
changeField_Append(state, key, value) ==
  [state EXCEPT !.formData =
     Put(state.formData, key,
         IF Get(state.formData, key).t = "string" /\ value.t = "string"
         THEN Str(Get(state.formData, key).s \o value.s)
         ELSE value)]

changeField(state, key, value) ==
  [state EXCEPT !.formData = Put(state.formData, key, value)]

\* CheckField that records the error under the inputType of the field.
CheckField_KeyedByInputType(errors, data, field) ==
  IF (field.required /\ Get(data, field.id) = Str(<<>>)) \/ Get(data, field.id) = Null
  THEN Put(errors, field.inputType, "Field is required")
  ELSE errors

\* The callback of formLayout.map in checkData, for one field.
CheckField(errors, data, field) ==
  IF (field.required /\ Get(data, field.id) = Str(<<>>)) \/ Get(data, field.id) = Null
  THEN Put(errors, field.id, "Field is required")
  ELSE errors

RECURSIVE MapCheckField(_, _, _, _)
MapCheckField(errors, data, layout, i) ==
  IF i > Len(layout) THEN errors
  ELSE MapCheckField(CheckField(errors, data, layout[i]), data, layout, i + 1)

checkData(data, layout) == MapCheckField(EmptyObj, data, layout, 1)

\* ParseField without the test of the inputType.
ParseField_AnyType(parsedData, data, field) ==
  Put(parsedData, field.id, ToNumber(Get(data, field.id)))

\* The callback of formLayout.map in parseNumbers, for one field.
ParseField(parsedData, data, field) ==
  IF field.inputType = "NUMBER"
  THEN Put(parsedData, field.id, ToNumber(Get(data, field.id)))
  ELSE parsedData

RECURSIVE MapParseField(_, _, _, _)
MapParseField(parsedData, data, layout, i) ==
  IF i > Len(layout) THEN parsedData
  ELSE MapParseField(ParseField(parsedData, data, layout[i]), data, layout, i + 1)

\* parseNumbers that converts every entry of the data.
parseNumbers_AllKeys(data, layout) == [k \in DOMAIN data |-> ToNumber(data[k])]

parseNumbers(data, layout) == MapParseField(data, data, layout, 1)

\* submit without the test for errors before the call of onSubmit.
submit_AlwaysInvokes(state, layout) ==
  [state |-> [state EXCEPT !.formErrors = checkData(state.formData, layout)],
   calls |-> <<parseNumbers(state.formData, layout)>>]

\* submit that keeps the parsed numbers in the state.
submit_StoresParsedData(state, layout) ==
  LET errors == checkData(state.formData, layout)
  IN  [state |-> [state EXCEPT !.formErrors = errors,
                               !.formData = IF NumKeys(errors) = 0
                                            THEN parseNumbers(state.formData, layout)
                                            ELSE state.formData],
       calls |-> IF NumKeys(errors) = 0
                 THEN <<parseNumbers(state.formData, layout)>>
                 ELSE <<>>]

\* submit that adds the new errors to the errors of the state.
submit_MergesErrors(state, layout) ==
  LET errors == checkData(state.formData, layout)
      merged == [k \in DOMAIN state.formErrors \cup DOMAIN errors |->
                   IF k \in DOMAIN errors THEN errors[k] ELSE state.formErrors[k]]
  IN  [state |-> [state EXCEPT !.formErrors = merged],
       calls |-> IF NumKeys(errors) = 0
                 THEN <<parseNumbers(state.formData, layout)>>
                 ELSE <<>>]

\* submit returns the new state; `calls` lists the arguments of the
\* invocations of onSubmit it made.
submit(state, layout) ==
  LET errors == checkData(state.formData, layout)
  IN  [state |-> [state EXCEPT !.formErrors = errors],
       calls |-> IF NumKeys(errors) = 0
                 THEN <<parseNumbers(state.formData, layout)>>
                 ELSE <<>>]

\* FormDataReducerAction, with the fields of the three kinds side by side.
ResetAction(layout) ==
  [type |-> "reset", formLayout |-> layout, key |-> "", value |-> Undefined]

SubmitAction(layout) ==
  [type |-> "submit", formLayout |-> layout, key |-> "", value |-> Undefined]

ChangeFieldAction(key, value) ==
  [type |-> "changeField", formLayout |-> <<>>, key |-> key, value |-> value]

\* An action whose tag is outside the FormDataReducerAction union.
UnknownAction(tag) ==
  [type |-> tag, formLayout |-> <<>>, key |-> "", value |-> Undefined]

\* Tags the union does not have.
UnknownTags == {"", "Reset", "clear"}

\* reducer whose default case returns the state it was given.
reducer_DefaultReturnsState(state, action) ==
  CASE action.type = "reset" ->
         [state |-> reset(state, action.formLayout), calls |-> <<>>, threw |-> FALSE]
    [] action.type = "submit" ->
         [state |-> submit(state, action.formLayout).state,
          calls |-> submit(state, action.formLayout).calls, threw |-> FALSE]
    [] action.type = "changeField" ->
         [state |-> changeField(state, action.key, action.value),
          calls |-> <<>>, threw |-> FALSE]
    [] OTHER -> [state |-> state, calls |-> <<>>, threw |-> FALSE]

\* `threw` tells that reducer ended with `throw new Error()`; it then
\* returns nothing, and `state` repeats the state it was given.
reducer(state, action) ==
  CASE action.type = "reset" ->
         [state |-> reset(state, action.formLayout), calls |-> <<>>, threw |-> FALSE]
    [] action.type = "submit" ->
         [state |-> submit(state, action.formLayout).state,
          calls |-> submit(state, action.formLayout).calls, threw |-> FALSE]
    [] action.type = "changeField" ->
         [state |-> changeField(state, action.key, action.value),
          calls |-> <<>>, threw |-> FALSE]
    [] OTHER -> [state |-> state, calls |-> <<>>, threw |-> TRUE]

(* ---------------- the reducer on objects with identity ------------------ *)

\* The functions above give the contents of the objects the code returns.
\* The ones below follow the same statements on a heap, the sequence of the
\* objects created so far, where a reference is an index, an object literal
\* creates a new object and an assignment to a property changes the object
\* in place. A state object holds the references of its formData and
\* formErrors.

\* An object literal: a new object on the heap.
New(heap, obj) == [heap |-> Append(heap, obj), ref |-> Len(heap) + 1]

\* The properties of the object at `ref` are assigned in place.
Write(heap, ref, obj) == [heap EXCEPT ![ref] = obj]

\* An optional object argument: null, or the reference of an object.
NoRef == [present |-> FALSE, ref |-> 0]
Ref(r) == [present |-> TRUE, ref |-> r]

generateDefaultFormDataOnHeap(heap, layout, data, key) ==
  LET formDataObj == IF data.present THEN [heap |-> heap, ref |-> data.ref]
                     ELSE New(heap, EmptyObj)
      filled == Write(formDataObj.heap, formDataObj.ref,
                      MapSetDefault(formDataObj.heap[formDataObj.ref], layout, 1))
  IN  [heap |-> IF key # NoIdKey /\ data.present /\ Truthy(Get(filled[data.ref], key))
                THEN Write(filled, formDataObj.ref,
                           Put(filled[formDataObj.ref], key, Get(filled[data.ref], key)))
                ELSE filled,
       ref |-> formDataObj.ref]

resetOnHeap(heap, stateRef, layout) ==
  LET generated == generateDefaultFormDataOnHeap(heap, layout, NoRef, NoIdKey)
      errors == New(generated.heap, EmptyObj)
  IN  New(errors.heap, [errors.heap[stateRef] EXCEPT !.formData = generated.ref,
                                                     !.formErrors = errors.ref])

changeFieldOnHeap(heap, stateRef, key, value) ==
  LET changed == New(heap, Put(heap[heap[stateRef].formData], key, value))
  IN  New(changed.heap, [changed.heap[stateRef] EXCEPT !.formData = changed.ref])

checkDataOnHeap(heap, dataRef, layout) ==
  LET errors == New(heap, EmptyObj)
  IN  [heap |-> Write(errors.heap, errors.ref,
                      MapCheckField(errors.heap[errors.ref], errors.heap[dataRef],
                                    layout, 1)),
       ref |-> errors.ref]

\* parseNumbers whose parsedData is the object it was given.
parseNumbersOnHeap_NoCopy(heap, dataRef, layout) ==
  LET parsedData == [heap |-> heap, ref |-> dataRef]
  IN  [heap |-> Write(parsedData.heap, parsedData.ref,
                      MapParseField(parsedData.heap[parsedData.ref],
                                    parsedData.heap[dataRef], layout, 1)),
       ref |-> parsedData.ref]

parseNumbersOnHeap(heap, dataRef, layout) ==
  LET parsedData == New(heap, heap[dataRef])
  IN  [heap |-> Write(parsedData.heap, parsedData.ref,
                      MapParseField(parsedData.heap[parsedData.ref],
                                    parsedData.heap[dataRef], layout, 1)),
       ref |-> parsedData.ref]

\* `calls` lists the references of the objects handed to onSubmit.
submitOnHeap(heap, stateRef, layout) ==
  LET errors == checkDataOnHeap(heap, heap[stateRef].formData, layout)
      valid == NumKeys(errors.heap[errors.ref]) = 0
      parsed == parseNumbersOnHeap(errors.heap, errors.heap[stateRef].formData, layout)
      after == IF valid THEN parsed.heap ELSE errors.heap
      next == New(after, [after[stateRef] EXCEPT !.formErrors = errors.ref])
  IN  [heap |-> next.heap, ref |-> next.ref,
       calls |-> IF valid THEN <<parsed.ref>> ELSE <<>>]

\* `ref` is the state object reducer returns; when it threw, it returns
\* nothing and `ref` repeats the state it was given.
reducerOnHeap(heap, stateRef, action) ==
  CASE action.type = "reset" ->
         [heap |-> resetOnHeap(heap, stateRef, action.formLayout).heap,
          ref |-> resetOnHeap(heap, stateRef, action.formLayout).ref,
          calls |-> <<>>, threw |-> FALSE]
    [] action.type = "submit" ->
         [heap |-> submitOnHeap(heap, stateRef, action.formLayout).heap,
          ref |-> submitOnHeap(heap, stateRef, action.formLayout).ref,
          calls |-> submitOnHeap(heap, stateRef, action.formLayout).calls,
          threw |-> FALSE]
    [] action.type = "changeField" ->
         [heap |-> changeFieldOnHeap(heap, stateRef, action.key, action.value).heap,
          ref |-> changeFieldOnHeap(heap, stateRef, action.key, action.value).ref,
          calls |-> <<>>, threw |-> FALSE]
    [] OTHER -> [heap |-> heap, ref |-> stateRef, calls |-> <<>>, threw |-> TRUE]

\* A state on a heap of its own: the state object, then its formData and
\* its formErrors.
StateOnHeap(state) ==
  <<[formData |-> 2, formErrors |-> 3], state.formData, state.formErrors>>

(* ------------------------------ the hook -------------------------------- *)

formState == [formData |-> formData, formErrors |-> formErrors]

\* Arguments of useFormControl the form sessions are started with.
HookArgs ==
  { [defaultData |-> NoData, idKey |-> NoIdKey],
    [defaultData |-> SomeData([k \in {RecordIdKey, FieldIds[1]} |->
                                 IF k = RecordIdKey THEN Str(<<"1", "2">>) ELSE Null]),
     idKey |-> RecordIdKey] }

\* useFormControl's first render: useReducer's initial state.
Init ==
  \E layout \in Layouts, args \in HookArgs :
    LET generated == generateDefaultFormData(layout, args.defaultData, args.idKey)
    IN  /\ formLayout = layout
        /\ defaultData = generated.defaultData
        /\ idKey = args.idKey
        /\ formData = generated.formData
        /\ formErrors = EmptyObj
        /\ lastAction = "init"
        /\ onSubmitCalls = <<>>
        /\ deferred = <<>>
        /\ queue = <<>>

\* The state becomes reducer(state, action).
Apply(action) ==
  LET result == reducer(formState, action)
  IN  /\ lastAction' = action.type
      /\ ~result.threw
      /\ formData' = result.state.formData
      /\ formErrors' = result.state.formErrors
      /\ onSubmitCalls' = result.calls
      /\ UNCHANGED <<formLayout, defaultData, idKey>>

\* formDispatch(action) that is applied at once, with an onSubmit that
\* completes synchronously.
Dispatch(action) == Apply(action) /\ UNCHANGED <<deferred, queue>>

\* reset() of the hook
Reset == \E action \in {ResetAction(formLayout)} : Dispatch(action)

\* submit() of the hook
Submit == \E action \in {SubmitAction(formLayout)} : Dispatch(action)

\* changeField(key, value) of the hook
ChangeField ==
  \E key \in InputKeys(formLayout), value \in InputValues :
    Dispatch(ChangeFieldAction(key, value))

Next == Reset \/ Submit \/ ChangeField

Spec == Init /\ [][Next]_vars

(* ------------------- generateDefaultFormData on its own ------------------ *)

\* Field descriptors for calls of generateDefaultFormData: every inputType
\* with an undeclared, a null and a declared defaultValue.
GenerateKinds ==
  { [inputType |-> t, required |-> FALSE, defaultValue |-> d] :
      t \in {"STRING", "NUMBER", "BOOLEAN"},
      d \in {Undefined, Null, Str(<<"7">>)} }

GenerateLayouts ==
  UNION { { [i \in 1..n |-> Field(i, kinds[i])] : kinds \in [1..n -> GenerateKinds] } :
            n \in 0..MaxFields }

\* Supplied data: any object over the first two field ids and the record id.
SuppliedData ==
  {NoData} \cup
  { SomeData(obj) :
      obj \in UNION { [keys -> {Null, Str(<<"1", "2">>)}] :
                        keys \in SUBSET {FieldIds[1], FieldIds[2], RecordIdKey} } }

IdKeys == {NoIdKey, RecordIdKey, FieldIds[1]}

InitGenerate ==
  /\ formLayout \in GenerateLayouts
  /\ defaultData \in SuppliedData
  /\ idKey \in IdKeys
  /\ formData = EmptyObj
  /\ formErrors = EmptyObj
  /\ lastAction = "args"
  /\ onSubmitCalls = <<>>
  /\ deferred = <<>>
  /\ queue = <<>>

\* One call generateDefaultFormData(formLayout, defaultData, idKey).
Generate ==
  /\ lastAction = "args"
  /\ formData' = generateDefaultFormData(formLayout, defaultData, idKey).formData
  /\ defaultData' = generateDefaultFormData(formLayout, defaultData, idKey).defaultData
  /\ lastAction' = "generate"
  /\ UNCHANGED <<formLayout, idKey, formErrors, onSubmitCalls, deferred, queue>>

SpecGenerate == InitGenerate /\ [][Generate]_vars

(* ------------- sessions with edit-mode arguments and deferred callbacks --- *)

SessionLayouts == UNION { LayoutsOfLen(n) : n \in 0..MaxSessionFields }

\* Arguments of useFormControl: no defaultData; a record whose id is outside
\* the layout; a record whose idKey names the first field; a record with a
\* null field value.
SessionArgs ==
  { [defaultData |-> NoData, idKey |-> NoIdKey],
    [defaultData |-> SomeData([k \in {RecordIdKey} |-> Str(<<"1", "2">>)]),
     idKey |-> RecordIdKey],
    [defaultData |-> SomeData([k \in {FieldIds[1]} |-> Str(<<"1", "2">>)]),
     idKey |-> FieldIds[1]],
    [defaultData |-> SomeData([k \in {RecordIdKey, FieldIds[1]} |->
                                 IF k = RecordIdKey THEN Str(<<"1", "2">>) ELSE Null]),
     idKey |-> RecordIdKey] }

InitSession ==
  \E layout \in SessionLayouts, args \in SessionArgs :
    LET generated == generateDefaultFormData(layout, args.defaultData, args.idKey)
    IN  /\ formLayout = layout
        /\ defaultData = generated.defaultData
        /\ idKey = args.idKey
        /\ formData = generated.formData
        /\ formErrors = EmptyObj
        /\ lastAction = "init"
        /\ onSubmitCalls = <<>>
        /\ deferred = <<>>
        /\ queue = <<>>

\* submit() of the hook with an onSubmit that returns a deferred result:
\* submit drops what onSubmit returns, the result stays pending.
SubmitDeferred ==
  /\ Len(deferred) < MaxDeferred
  /\ \E action \in {SubmitAction(formLayout)} :
       /\ reducer(formState, action).calls # <<>>
       /\ Apply(action)
  /\ deferred' = Append(deferred, "pending")
  /\ UNCHANGED queue

\* Settle that reports a rejection in formErrors.
Settle_RecordsRejection ==
  \E i \in 1..Len(deferred), outcome \in {"fulfilled", "rejected"} :
    /\ deferred[i] = "pending"
    /\ deferred' = [deferred EXCEPT ![i] = outcome]
    /\ formErrors' = IF outcome = "rejected"
                     THEN Put(formErrors, "onSubmit", "Submit failed")
                     ELSE formErrors
    /\ UNCHANGED <<formLayout, defaultData, idKey, formData, lastAction, onSubmitCalls,
                   queue>>

\* A deferred result of onSubmit is fulfilled or rejected: no code of the
\* hook is attached to it.
Settle ==
  \E i \in 1..Len(deferred), outcome \in {"fulfilled", "rejected"} :
    /\ deferred[i] = "pending"
    /\ deferred' = [deferred EXCEPT ![i] = outcome]
    /\ UNCHANGED <<formLayout, defaultData, idKey, formData, formErrors, lastAction,
                   onSubmitCalls, queue>>

NextSession == Reset \/ Submit \/ ChangeField \/ SubmitDeferred \/ Settle

SpecSession == InitSession /\ [][NextSession]_vars

(* ------------------- several dispatches before a render ----------------- *)

\* Values passed to changeField in the sessions with queued dispatches.
QueueValues == { Str(<<>>), Str(<<"1", "2">>) }

InitQueue ==
  \E layout \in SessionLayouts :
    /\ formLayout = layout
    /\ defaultData = NoData
    /\ idKey = NoIdKey
    /\ formData = generateDefaultFormData(layout, NoData, NoIdKey).formData
    /\ formErrors = EmptyObj
    /\ lastAction = "init"
    /\ onSubmitCalls = <<>>
    /\ deferred = <<>>
    /\ queue = <<>>

\* formDispatch(action) from an event handler: the action waits for the
\* next render.
Enqueue(action) ==
  /\ Len(queue) < MaxQueue
  /\ queue' = Append(queue, action)
  /\ UNCHANGED <<formLayout, defaultData, idKey, formData, formErrors, lastAction,
                 onSubmitCalls, deferred>>

ResetQueued == \E action \in {ResetAction(formLayout)} : Enqueue(action)

SubmitQueued == \E action \in {SubmitAction(formLayout)} : Enqueue(action)

ChangeFieldQueued ==
  \E key \in InputKeys(formLayout), value \in QueueValues :
    Enqueue(ChangeFieldAction(key, value))

\* ReduceQueue that applies every action to the state of the last render:
\* only the last action shows in the state.
ReduceQueue_StaleState(state, calls, actions, i) ==
  IF actions = <<>> THEN [state |-> state, calls |-> calls]
  ELSE [state |-> reducer(state, actions[Len(actions)]).state,
        calls |-> reducer(state, actions[Len(actions)]).calls]

\* The render after the dispatches: useReducer applies the queued actions
\* to the state one after the other, in the order of their dispatch.
RECURSIVE ReduceQueue(_, _, _, _)
ReduceQueue(state, calls, actions, i) ==
  IF i > Len(actions) THEN [state |-> state, calls |-> calls]
  ELSE ReduceQueue(reducer(state, actions[i]).state,
                   calls \o reducer(state, actions[i]).calls, actions, i + 1)

Render ==
  /\ queue # <<>>
  /\ formData' = ReduceQueue(formState, <<>>, queue, 1).state.formData
  /\ formErrors' = ReduceQueue(formState, <<>>, queue, 1).state.formErrors
  /\ onSubmitCalls' = ReduceQueue(formState, <<>>, queue, 1).calls
  /\ lastAction' = queue[Len(queue)].type
  /\ queue' = <<>>
  /\ UNCHANGED <<formLayout, defaultData, idKey, deferred>>

NextQueue == ResetQueued \/ SubmitQueued \/ ChangeFieldQueued \/ Render

SpecQueue == InitQueue /\ [][NextQueue]_vars

(* -------------------------------- claims -------------------------------- *)

\* C1: a submit at which every required field holds a populated value
\* (neither "" nor null) invokes onSubmit exactly once, with the numerically
\* coerced form data, and leaves formErrors empty.
C1_SubmitPopulatedInvokesOnce ==
  [][(/\ lastAction' = "submit"
      /\ \A i \in 1..Len(formLayout) :
           formLayout[i].required =>
             Get(formData, formLayout[i].id) \notin {Str(<<>>), Null})
     => (/\ Len(onSubmitCalls') = 1
         /\ onSubmitCalls'[1] =
              [k \in DOMAIN formData |->
                 IF \E i \in 1..Len(formLayout) :
                      formLayout[i].id = k /\ formLayout[i].inputType = "NUMBER"
                 THEN ToNumber(formData[k]) ELSE formData[k]]
         /\ formErrors' = EmptyObj)]_vars

\* C2: a submit at which some required field is "" records "Field is
\* required" under that field's id and does not invoke onSubmit; whenever
\* the errors of a submit are non-empty, onSubmit is not invoked.
C2_SubmitEmptyRequiredFails ==
  [][lastAction' = "submit"
     => (/\ \A i \in 1..Len(formLayout) :
              (formLayout[i].required /\ Get(formData, formLayout[i].id) = Str(<<>>))
              => (/\ formLayout[i].id \in DOMAIN formErrors'
                  /\ formErrors'[formLayout[i].id] = "Field is required"
                  /\ onSubmitCalls' = <<>>)
         /\ (DOMAIN formErrors' # {} => onSubmitCalls' = <<>>))]_vars

\* A submit has just failed on a required field that is "".
C2_Witness ==
  /\ lastAction = "submit"
  /\ onSubmitCalls = <<>>
  /\ \E i \in 1..Len(formLayout) :
       /\ formLayout[i].required
       /\ Get(formData, formLayout[i].id) = Str(<<>>)
       /\ formLayout[i].id \in DOMAIN formErrors

\* C3: the errors computed on submit have the entry "Field is required" for
\* a field id exactly when the field is required and its value is "" or
\* null; a field that is not required never receives an error.
C3_ErrorsExactlyRequiredEmpty ==
  [][lastAction' = "submit"
     => (/\ \A i \in 1..Len(formLayout) :
              (formLayout[i].id \in DOMAIN formErrors')
              <=> (/\ formLayout[i].required
                   /\ Get(formData, formLayout[i].id) \in {Str(<<>>), Null})
         /\ \A k \in DOMAIN formErrors' : formErrors'[k] = "Field is required")]_vars

\* C4: in every state reached from hook initialization by reset, changeField
\* and submit, every field id of the layout is a key of formData.
C4_LayoutIdsInFormData == LayoutIds(formLayout) \subseteq DOMAIN formData

\* A changeField on a two-field layout with errors recorded and a key
\* outside the layout in the form data.
C4_Witness ==
  /\ lastAction = "changeField"
  /\ Len(formLayout) >= 2
  /\ RecordIdKey \in DOMAIN formData
  /\ formErrors # EmptyObj

\* C5: generateDefaultFormData gives each layout field that is not present
\* in the supplied data its declared defaultValue if one is declared,
\* otherwise false for a BOOLEAN field and "" for any other type, and each
\* layout field that is present in the supplied data keeps the supplied
\* value.
C5_DefaultsForAbsentFields ==
  [][lastAction' = "generate"
     => \A i \in 1..Len(formLayout) :
          LET field == formLayout[i]
          IN  /\ field.id \in DOMAIN formData'
              /\ formData'[field.id] =
                   IF defaultData.present /\ field.id \in DOMAIN defaultData.obj
                   THEN defaultData.obj[field.id]
                   ELSE IF field.defaultValue # Undefined THEN field.defaultValue
                   ELSE IF field.inputType = "BOOLEAN" THEN Bool(FALSE)
                   ELSE Str(<<>>)]_vars

\* C5 as amended: a layout field whose supplied value is missing, null or
\* undefined gets its declared defaultValue if that is neither null nor
\* undefined, otherwise false for a BOOLEAN field and "" for any other type;
\* a layout field whose supplied value is neither null nor undefined keeps
\* the supplied value.
C5_DefaultsForUnsetFields ==
  [][lastAction' = "generate"
     => \A i \in 1..Len(formLayout) :
          LET field == formLayout[i]
              supplied == IF defaultData.present
                          THEN Get(defaultData.obj, field.id) ELSE Undefined
          IN  /\ field.id \in DOMAIN formData'
              /\ formData'[field.id] =
                   IF supplied \notin {Null, Undefined} THEN supplied
                   ELSE IF field.defaultValue \notin {Null, Undefined}
                        THEN field.defaultValue
                   ELSE IF field.inputType = "BOOLEAN" THEN Bool(FALSE)
                   ELSE Str(<<>>)]_vars

\* A call on a two-field layout whose first field kept the supplied "12" and
\* whose second field, a BOOLEAN without default, was filled with false.
C5_Witness ==
  /\ lastAction = "generate"
  /\ Len(formLayout) >= 2
  /\ formLayout[1].defaultValue = Str(<<"7">>)
  /\ formData[formLayout[1].id] = Str(<<"1", "2">>)
  /\ formLayout[2].inputType = "BOOLEAN"
  /\ formData[formLayout[2].id] = Bool(FALSE)

\* C6: a reset yields formErrors equal to the empty mapping and formData
\* equal to the result of generateDefaultFormData on the layout with no
\* pre-existing data, whatever the state before.
C6_ResetYieldsFreshDefaults ==
  lastAction = "reset"
  => /\ formErrors = EmptyObj
     /\ formData = generateDefaultFormData(formLayout, NoData, NoIdKey).formData
     /\ DOMAIN formData = LayoutIds(formLayout)
     /\ \A i \in 1..Len(formLayout) :
          formData[formLayout[i].id] =
            IF formLayout[i].defaultValue \notin {Null, Undefined}
            THEN formLayout[i].defaultValue
            ELSE IF formLayout[i].inputType = "BOOLEAN" THEN Bool(FALSE)
            ELSE Str(<<>>)

\* A reset of a form that was initialized with defaultData and idKey: the
\* record id the initial form data carried is gone, every field holds its
\* default.
C6_Witness ==
  /\ lastAction = "reset"
  /\ defaultData.present
  /\ idKey = RecordIdKey
  /\ RecordIdKey \in DOMAIN defaultData.obj
  /\ RecordIdKey \notin DOMAIN formData
  /\ Len(formLayout) >= 2

\* C7: from every reachable state, for every key k and value v, a
\* changeField(k, v) leaves formErrors unchanged and leaves every key of
\* formData other than k as it was: none added, removed or altered.
C7_ChangeFieldTouchesOnlyKey ==
  \A k \in InputKeys(formLayout), v \in InputValues :
    LET after == reducer(formState, ChangeFieldAction(k, v)).state
    IN  /\ after.formErrors = formErrors
        /\ DOMAIN after.formData \ {k} = DOMAIN formData \ {k}
        /\ \A j \in DOMAIN formData \ {k} : after.formData[j] = formData[j]

\* A changeField on a layout field while errors are recorded and the form
\* data has two other keys, one of them outside the layout.
C7_Witness ==
  /\ lastAction = "changeField"
  /\ formErrors # EmptyObj
  /\ Cardinality(DOMAIN formData) >= 3
  /\ RecordIdKey \in DOMAIN formData
  /\ \E i \in 1..Len(formLayout) :
       /\ formLayout[i].id \in DOMAIN formErrors
       /\ formData[formLayout[i].id] = Str(<<"1", "2">>)

\* C8: from every reachable state, for every key k and value v, applying
\* changeField(k, v) twice in succession yields the same formData and
\* formErrors as applying it once.
C8_ChangeFieldIdempotent ==
  \A k \in InputKeys(formLayout), v \in InputValues :
    LET once == reducer(formState, ChangeFieldAction(k, v)).state
        twice == reducer(once, ChangeFieldAction(k, v)).state
    IN  /\ twice.formData = once.formData
        /\ twice.formErrors = once.formErrors

\* A changeField that replaced the string value of a layout field by another
\* string, with errors recorded.
C8_Witness ==
  /\ lastAction = "changeField"
  /\ formErrors # EmptyObj
  /\ \E i \in 1..Len(formLayout) :
       /\ formLayout[i].defaultValue = Str(<<"7">>)
       /\ formData[formLayout[i].id] = Str(<<"1", "2">>)

\* C9: a submit never changes formData, whether it succeeds or fails; NUMBER
\* fields keep their stored values in the state.
C9_SubmitKeepsFormData ==
  [][lastAction' = "submit" => formData' = formData]_vars

\* A successful submit on a layout with a NUMBER field: the state still
\* holds the string, onSubmit got the number.
C9_Witness ==
  /\ lastAction = "submit"
  /\ Len(onSubmitCalls) = 1
  /\ \E i \in 1..Len(formLayout) :
       /\ formLayout[i].inputType = "NUMBER"
       /\ formData[formLayout[i].id] = Str(<<"1", "2">>)
       /\ onSubmitCalls[1][formLayout[i].id] = Num(12)

\* C10: the data a submit passes to onSubmit has, for every NUMBER field of
\* the layout, the numeric conversion of the stored value and, for every
\* other key of formData, the stored value; no key is added or dropped.
C10_OnSubmitGetsCoercedData ==
  [][(lastAction' = "submit" /\ onSubmitCalls' # <<>>)
     => /\ Len(onSubmitCalls') = 1
        /\ DOMAIN onSubmitCalls'[1] = DOMAIN formData
        /\ \A k \in DOMAIN formData :
             onSubmitCalls'[1][k] =
               IF \E i \in 1..Len(formLayout) :
                    formLayout[i].id = k /\ formLayout[i].inputType = "NUMBER"
               THEN ToNumber(formData[k])
               ELSE formData[k]]_vars

\* A successful submit whose data has a NUMBER field holding "12", another
\* NUMBER field holding true, a BOOLEAN-typed field holding a string and a
\* key outside the layout.
C10_Witness ==
  /\ lastAction = "submit"
  /\ Len(onSubmitCalls) = 1
  /\ RecordIdKey \in DOMAIN formData
  /\ onSubmitCalls[1][RecordIdKey] = formData[RecordIdKey]
  /\ \E i, j \in 1..Len(formLayout) :
       /\ formLayout[i].inputType = "NUMBER"
       /\ formData[formLayout[i].id] \in {Str(<<"1", "2">>), Str(<<>>), Bool(TRUE)}
       /\ onSubmitCalls[1][formLayout[i].id] \in {Num(12), Num(0), Num(1)}
       /\ formLayout[j].inputType # "NUMBER"
       /\ formData[formLayout[j].id] = Str(<<"1", "2">>)
       /\ onSubmitCalls[1][formLayout[j].id] = Str(<<"1", "2">>)

\* C11: an action whose type tag is none of reset, submit and changeField
\* makes the reducer throw instead of returning a state, and no onSubmit
\* call is made for it; the three known actions never throw, so validation
\* errors are reported in formErrors and never by throwing.
C11_UnknownActionThrows ==
  /\ \A tag \in UnknownTags :
       /\ reducer(formState, UnknownAction(tag)).threw
       /\ reducer(formState, UnknownAction(tag)).calls = <<>>
  /\ ~reducer(formState, ResetAction(formLayout)).threw
  /\ ~reducer(formState, SubmitAction(formLayout)).threw
  /\ \A k \in InputKeys(formLayout), v \in InputValues :
       ~reducer(formState, ChangeFieldAction(k, v)).threw
  /\ (lastAction = "submit" /\ onSubmitCalls = <<>>) => formErrors # EmptyObj

\* A submit has just reported a validation error in formErrors; an unknown
\* action on this state throws.
C11_Witness ==
  /\ lastAction = "submit"
  /\ formErrors # EmptyObj
  /\ onSubmitCalls = <<>>
  /\ Len(formLayout) >= 2
  /\ \A tag \in UnknownTags : reducer(formState, UnknownAction(tag)).threw

\* C12: the state a submit produces is the same whether onSubmit completes
\* synchronously or returns a deferred result that is still pending, and
\* the later fulfilment or rejection of a deferred result changes neither
\* formData nor formErrors.
C12_SubmitDoesNotAwait ==
  [][LET settles == Len(deferred') = Len(deferred) /\ deferred' # deferred
         submitted == reducer(formState, SubmitAction(formLayout))
     IN  /\ (lastAction' = "submit" /\ ~settles)
            => /\ formData' = submitted.state.formData
               /\ formErrors' = submitted.state.formErrors
               /\ onSubmitCalls' = submitted.calls
         /\ settles
            => /\ formData' = formData
               /\ formErrors' = formErrors
               /\ onSubmitCalls' = onSubmitCalls
               /\ lastAction' = lastAction]_vars

\* Two deferred results were returned; one was rejected after a later
\* changeField, the other is still pending; the form state has no errors.
C12_Witness ==
  /\ Len(deferred) = 2
  /\ deferred[1] = "rejected"
  /\ deferred[2] = "pending"
  /\ lastAction = "changeField"
  /\ formErrors = EmptyObj

\* C13: dispatched actions are applied one at a time in dispatch order.
\* After a render, each key of formData holds the value of the last
\* changeField on it dispatched after the last reset, else its default if a
\* reset was dispatched, else the value it had; and a submit dispatched
\* right after a changeField(k, v) validates v for k and passes v (coerced
\* for a NUMBER field) to onSubmit, never the value k had before.
C13_DispatchOrder ==
  [][(queue # <<>> /\ queue' = <<>>)
     => LET n == Len(queue)
            resets == {i \in 1..n : queue[i].type = "reset"}
            lastReset == IF resets = {} THEN 0
                         ELSE CHOOSE i \in resets : \A j \in resets : j <= i
            changes(k) == {i \in (lastReset + 1)..n :
                             queue[i].type = "changeField" /\ queue[i].key = k}
            lastChange(k) == CHOOSE i \in changes(k) : \A j \in changes(k) : j <= i
            defaults == generateDefaultFormData(formLayout, NoData, NoIdKey).formData
            field(k) == CHOOSE i \in 1..Len(formLayout) : formLayout[i].id = k
        IN  /\ \A k \in InputKeys(formLayout) :
                 IF changes(k) # {}
                 THEN k \in DOMAIN formData' /\ formData'[k] = queue[lastChange(k)].value
                 ELSE IF lastReset > 0
                      THEN Get(formData', k) = Get(defaults, k)
                           /\ (k \in DOMAIN formData' <=> k \in DOMAIN defaults)
                      ELSE Get(formData', k) = Get(formData, k)
                           /\ (k \in DOMAIN formData' <=> k \in DOMAIN formData)
            /\ (n >= 2 /\ queue[n].type = "submit" /\ queue[n - 1].type = "changeField"
                /\ queue[n - 1].key \in LayoutIds(formLayout))
               => LET k == queue[n - 1].key
                      v == queue[n - 1].value
                  IN  /\ (k \in DOMAIN formErrors')
                         <=> ((formLayout[field(k)].required /\ v = Str(<<>>)) \/ v = Null)
                      /\ formErrors' = EmptyObj
                         => /\ onSubmitCalls' # <<>>
                            /\ onSubmitCalls'[Len(onSubmitCalls')][k] =
                                 IF formLayout[field(k)].inputType = "NUMBER"
                                 THEN ToNumber(v) ELSE v]_vars

\* Before a render: a changeField that populates a required field which is
\* still "" in the rendered state, then a submit, are waiting.
C13_Witness ==
  /\ Len(queue) = 2
  /\ queue[1].type = "changeField"
  /\ queue[1].value = Str(<<"1", "2">>)
  /\ queue[2].type = "submit"
  /\ \E i \in 1..Len(formLayout) :
       /\ formLayout[i].id = queue[1].key
       /\ formLayout[i].required
       /\ formData[formLayout[i].id] = Str(<<>>)

\* C14: formErrors is recomputed wholesale on each submit. The errors after
\* a submit are those the same submit gives from a state without errors, so
\* a field that is populated (neither "" nor null) at the submit has no
\* error afterwards, whatever was recorded before; a changeField leaves
\* formErrors as it is, and a reset empties it.
C14_ErrorsRecomputedOnSubmit ==
  [][/\ lastAction' = "submit"
        => /\ formErrors' =
                reducer([formData |-> formData, formErrors |-> EmptyObj],
                        SubmitAction(formLayout)).state.formErrors
           /\ \A i \in 1..Len(formLayout) :
                Get(formData, formLayout[i].id) \notin {Str(<<>>), Null}
                => formLayout[i].id \notin DOMAIN formErrors'
     /\ lastAction' = "changeField" => formErrors' = formErrors
     /\ lastAction' = "reset" => formErrors' = EmptyObj]_vars

\* After a changeField: a field has an error from an earlier failed submit
\* and is populated now, another field still is "", so the next submit
\* fails again and has to drop the first field's error.
C14_Witness ==
  /\ lastAction = "changeField"
  /\ \E i, j \in 1..Len(formLayout) :
       /\ formLayout[i].id \in DOMAIN formErrors
       /\ formData[formLayout[i].id] = Str(<<"1", "2">>)
       /\ formLayout[j].required
       /\ formData[formLayout[j].id] = Str(<<>>)

\* C15: when the hook is initialized with an idKey that is present in
\* defaultData, formData has the defaultData value under idKey after
\* initialization; a submit and a changeField on another key keep it there,
\* and every onSubmit call made while it is there receives it unmodified.
C15_IdKeyPassedThrough ==
  [][LET given == /\ idKey # NoIdKey /\ defaultData.present
                  /\ idKey \in DOMAIN defaultData.obj
         kept == idKey \in DOMAIN formData /\ formData[idKey] = defaultData.obj[idKey]
         keptAfter == /\ idKey \in DOMAIN formData'
                      /\ formData'[idKey] = defaultData.obj[idKey]
     IN  /\ (lastAction = "init" /\ given) => kept
         /\ (given /\ kept)
            => /\ lastAction' = "submit"
                  => /\ keptAfter
                     /\ \A c \in 1..Len(onSubmitCalls') :
                          /\ idKey \in DOMAIN onSubmitCalls'[c]
                          /\ onSubmitCalls'[c][idKey] = defaultData.obj[idKey]
               /\ (lastAction' = "changeField" /\ ~keptAfter)
                  => \A k \in DOMAIN formData \ {idKey} :
                       k \in DOMAIN formData' /\ formData'[k] = formData[k]]_vars

\* C15 as amended: the same, for an idKey that is present in defaultData
\* and is not the id of a field of the layout.
C15_OuterIdKeyPassedThrough ==
  [][LET given == /\ idKey # NoIdKey /\ defaultData.present
                  /\ idKey \in DOMAIN defaultData.obj
                  /\ idKey \notin LayoutIds(formLayout)
         kept == idKey \in DOMAIN formData /\ formData[idKey] = defaultData.obj[idKey]
         keptAfter == /\ idKey \in DOMAIN formData'
                      /\ formData'[idKey] = defaultData.obj[idKey]
     IN  /\ (lastAction = "init" /\ given) => kept
         /\ (given /\ kept)
            => /\ lastAction' = "submit"
                  => /\ keptAfter
                     /\ \A c \in 1..Len(onSubmitCalls') :
                          /\ idKey \in DOMAIN onSubmitCalls'[c]
                          /\ onSubmitCalls'[c][idKey] = defaultData.obj[idKey]
               /\ (lastAction' = "changeField" /\ ~keptAfter)
                  => \A k \in DOMAIN formData \ {idKey} :
                       k \in DOMAIN formData' /\ formData'[k] = formData[k]]_vars

\* A successful submit of an edit-mode form with a NUMBER field: onSubmit
\* got the record id as the string it was given and the field as a number.
C15_Witness ==
  /\ lastAction = "submit"
  /\ Len(onSubmitCalls) = 1
  /\ idKey = RecordIdKey
  /\ defaultData.present
  /\ RecordIdKey \in DOMAIN onSubmitCalls[1]
  /\ onSubmitCalls[1][RecordIdKey] = Str(<<"1", "2">>)
  /\ Len(formLayout) >= 1
  /\ formLayout[1].inputType = "NUMBER"
  /\ onSubmitCalls[1][formLayout[1].id] = Num(12)

\* C16: a call of generateDefaultFormData with supplied data does not
\* modify the caller's defaultData object: after the call it has the same
\* keys and values as before.
C16_DefaultDataNotModified ==
  [][(lastAction' = "generate" /\ defaultData.present)
     => defaultData' = defaultData]_vars

\* C17: in every state reached by reset, changeField and submit with one
\* layout, every key of formErrors is a field id of the layout and every
\* message is "Field is required"; formErrors is empty initially.
C17_ErrorsKeyedByFieldIds ==
  /\ DOMAIN formErrors \subseteq LayoutIds(formLayout)
  /\ \A k \in DOMAIN formErrors : formErrors[k] = "Field is required"
  /\ lastAction = "init" => formErrors = EmptyObj

\* A failed submit with an error for each of two fields, while formData
\* also has a key outside the layout.
C17_Witness ==
  /\ lastAction = "submit"
  /\ Cardinality(DOMAIN formErrors) >= 2
  /\ RecordIdKey \in DOMAIN formData
  /\ formData[RecordIdKey] = Null

\* C18: reset, changeField and submit each return a new state object and
\* leave the state object they were given, its formData and its formErrors
\* with the same contents as before; the object handed to onSubmit is
\* neither the formData of the given state nor that of the returned state.
\* The objects of the returned state hold what reducer computes.
C18_StateReplacedImmutably ==
  \A action \in {ResetAction(formLayout), SubmitAction(formLayout)} \cup
                {ChangeFieldAction(k, v) : k \in InputKeys(formLayout), v \in InputValues} :
    LET given == StateOnHeap(formState)
        result == reducerOnHeap(given, 1, action)
        next == result.heap[result.ref]
        expected == reducer(formState, action)
    IN  /\ ~result.threw
        /\ result.ref \notin 1..Len(given)
        /\ \A r \in 1..Len(given) : result.heap[r] = given[r]
        /\ \A i \in 1..Len(result.calls) :
             /\ result.calls[i] # given[1].formData
             /\ result.calls[i] # next.formData
        /\ result.heap[next.formData] = expected.state.formData
        /\ result.heap[next.formErrors] = expected.state.formErrors
        /\ [i \in 1..Len(result.calls) |-> result.heap[result.calls[i]]] = expected.calls

\* A submit has handed onSubmit data in which parseNumbers replaced a
\* value, and the formData and formErrors of the state are as before it.
C18_Witness ==
  /\ lastAction = "submit"
  /\ Len(formLayout) >= 2
  /\ Len(onSubmitCalls) = 1
  /\ onSubmitCalls[1] # formData
  /\ DOMAIN onSubmitCalls[1] = DOMAIN formData
  /\ formErrors = EmptyObj

====
